---- MODULE Spec2Model ----
(***************************************************************************)
(* Agentic Honeypot API (src/main.py): the /honeypot/message handler, the  *)
(* in-memory session store it mutates, and the two outbound calls it       *)
(* awaits (the OpenAI chat completion and the GUVI final callback).        *)
(*                                                                         *)
(* A text is a sequence of one-character strings, so that strip(),         *)
(* lower(), the substring tests and the three regular expressions are      *)
(* computed character by character as Python computes them.                *)
(***************************************************************************)
EXTENDS Integers, Sequences, FiniteSets, TLC

(***************************************************************************)
(* Characters                                                              *)
(***************************************************************************)
UpperLetters ==
    <<"A","B","C","D","E","F","G","H","I","J","K","L","M",
      "N","O","P","Q","R","S","T","U","V","W","X","Y","Z">>

LowerLetters ==
    <<"a","b","c","d","e","f","g","h","i","j","k","l","m",
      "n","o","p","q","r","s","t","u","v","w","x","y","z">>

Digits == {"0","1","2","3","4","5","6","7","8","9"}

\* str.strip() with no argument and the regex class \s: ASCII whitespace
WhiteSpace == {" ", "\t", "\n", "\r"}

Range(seq) == {seq[i] : i \in DOMAIN seq}

\* the regex class \w  (letters, digits, underscore)
WordChars == Range(UpperLetters) \cup Range(LowerLetters) \cup Digits \cup {"_"}

\* the regex class [\w.+-]
UpiLocalChars == WordChars \cup {".", "+", "-"}

\* the regex class [6-9]
PhoneFirstDigits == {"6","7","8","9"}

SetMax(S) == CHOOSE x \in S : \A y \in S : y <= x

(***************************************************************************)
(* str.lower() and str.strip()                                             *)
(***************************************************************************)
LowerChar(c) ==
    IF \E i \in DOMAIN UpperLetters : UpperLetters[i] = c
    THEN LowerLetters[CHOOSE i \in DOMAIN UpperLetters : UpperLetters[i] = c]
    ELSE c

lower(t) == [i \in 1..Len(t) |-> LowerChar(t[i])]

\* the text as it is, whitespace kept
stripNothing(t) == t

strip(t) ==
    LET keep == {i \in 1..Len(t) : t[i] \notin WhiteSpace}
    IN  IF keep = {} THEN <<>>
        ELSE SubSeq(t, CHOOSE i \in keep : \A j \in keep : i <= j, SetMax(keep))

\* Python's  kw in text  on strings: kw occurs as a contiguous substring
Contains(kw, t) ==
    \E i \in 1..(Len(t) - Len(kw) + 1) : SubSeq(t, i, i + Len(kw) - 1) = kw

InList(x, lst) == \E i \in DOMAIN lst : lst[i] = x

(***************************************************************************)
(* SCAM_KEYWORDS and detect_scam                                           *)
(***************************************************************************)
SCAM_KEYWORDS ==
    << <<"o","t","p">>,
       <<"u","r","g","e","n","t">>,
       <<"v","e","r","i","f","y">>,
       <<"b","l","o","c","k","e","d">>,
       <<"s","u","s","p","e","n","d","e","d">>,
       <<"u","p","i">>,
       <<"b","a","n","k">>,
       <<"a","c","c","o","u","n","t">>,
       <<"k","y","c">>,
       <<"i","m","m","e","d","i","a","t","e","l","y">>,
       <<"c","l","i","c","k">>,
       <<"l","i","n","k">>,
       <<"t","r","a","n","s","f","e","r">>,
       <<"p","a","y","m","e","n","t">> >>

detect_scam(text) ==
    LET text_lower == lower(text)
    IN  \E k \in DOMAIN SCAM_KEYWORDS : Contains(SCAM_KEYWORDS[k], text_lower)

(***************************************************************************)
(* The three regular expressions of extract_intelligence.  XxxMatchEnd(t,i)*)
(* is the index of the last character of the match that starts at i, or 0  *)
(* when the pattern does not match at i.                                   *)
(***************************************************************************)
\* last index of the longest run of characters of S that starts at i (i-1: empty run)
RECURSIVE RunEnd(_, _, _)
RunEnd(t, i, S) ==
    IF i <= Len(t) /\ t[i] \in S THEN RunEnd(t, i + 1, S) ELSE i - 1

\* last index of the longest run of non-whitespace characters from i (\S+)
RECURSIVE NonSpaceRunEnd(_, _)
NonSpaceRunEnd(t, i) ==
    IF i <= Len(t) /\ t[i] \notin WhiteSpace THEN NonSpaceRunEnd(t, i + 1)
    ELSE i - 1

\* [\w.+-]+@[\w]+   (both runs are greedy; "@" is in neither class, so the
\* only way to match is the longest local part followed by "@")
UpiMatchEnd(t, i) ==
    LET a == RunEnd(t, i, UpiLocalChars)
    IN  IF a >= i /\ a + 1 <= Len(t) /\ t[a + 1] = "@"
           /\ RunEnd(t, a + 2, WordChars) >= a + 2
        THEN RunEnd(t, a + 2, WordChars)
        ELSE 0

\* [6-9]\d{9} starting at j
PhoneCoreAt(t, j) ==
    /\ j >= 1
    /\ j + 9 <= Len(t)
    /\ t[j] \in PhoneFirstDigits
    /\ \A k \in (j + 1)..(j + 9) : t[k] \in Digits

\* is the literal lit at position i of t
LiteralAt(t, i, lit) ==
    /\ i + Len(lit) - 1 <= Len(t)
    /\ SubSeq(t, i, i + Len(lit) - 1) = lit

\* (?:\+91[\-\s]?)?[6-9]\d{9}   tried in the regex engine's order: prefix with
\* separator, prefix without separator, no prefix
PhoneMatchEnd(t, i) ==
    LET prefix == LiteralAt(t, i, <<"+","9","1">>)
        sep    == prefix /\ i + 3 <= Len(t) /\ t[i + 3] \in ({"-"} \cup WhiteSpace)
    IN  IF sep /\ PhoneCoreAt(t, i + 4) THEN i + 13
        ELSE IF prefix /\ PhoneCoreAt(t, i + 3) THEN i + 12
        ELSE IF PhoneCoreAt(t, i) THEN i + 9
        ELSE 0

\* https?://\S+
LinkMatchEnd(t, i) ==
    LET afterScheme ==
            IF LiteralAt(t, i, <<"h","t","t","p","s",":","/","/">>) THEN i + 8
            ELSE IF LiteralAt(t, i, <<"h","t","t","p",":","/","/">>) THEN i + 7
            ELSE 0
    IN  IF afterScheme > 0 /\ NonSpaceRunEnd(t, afterScheme) >= afterScheme
        THEN NonSpaceRunEnd(t, afterScheme)
        ELSE 0

MatchEnd(pat, t, i) ==
    CASE pat = "upi"   -> UpiMatchEnd(t, i)
      [] pat = "phone" -> PhoneMatchEnd(t, i)
      [] pat = "link"  -> LinkMatchEnd(t, i)

\* re.findall(pat, text): leftmost non-overlapping matches, in order, from i on
RECURSIVE FindAllFrom(_, _, _)
FindAllFrom(pat, t, i) ==
    IF i > Len(t) THEN <<>>
    ELSE LET e == MatchEnd(pat, t, i)
         IN  IF e = 0 THEN FindAllFrom(pat, t, i + 1)
             ELSE <<SubSeq(t, i, e)>> \o FindAllFrom(pat, t, e + 1)

findall(pat, t) == FindAllFrom(pat, t, 1)

(***************************************************************************)
(* extract_intelligence: append-if-absent into the session's lists         *)
(***************************************************************************)
\* append without the membership test
AppendAlways(lst, x) == Append(lst, x)

AppendNew(lst, x) == IF InList(x, lst) THEN lst ELSE Append(lst, x)

\* for x in items: if x not in lst: lst.append(x)
RECURSIVE AddAll(_, _)
AddAll(lst, items) ==
    IF items = <<>> THEN lst
    ELSE AddAll(AppendNew(lst, Head(items)), Tail(items))

\* the SCAM_KEYWORDS from the k-th on that occur in text_lower (= text.lower()),
\* in list order
RECURSIVE KeywordsFrom(_, _)
KeywordsFrom(text_lower, k) ==
    IF k > Len(SCAM_KEYWORDS) THEN <<>>
    ELSE (IF Contains(SCAM_KEYWORDS[k], text_lower)
          THEN <<SCAM_KEYWORDS[k]>> ELSE <<>>)
         \o KeywordsFrom(text_lower, k + 1)

extract_intelligence(text, intel) ==
    [intel EXCEPT
        !.upiIds             = AddAll(@, findall("upi", text)),
        !.phoneNumbers       = AddAll(@, findall("phone", text)),
        !.phishingLinks      = AddAll(@, findall("link", text)),
        !.suspiciousKeywords = AddAll(@, KeywordsFrom(lower(text), 1))]

(***************************************************************************)
(* Configuration and the inputs a request can carry                        *)
(***************************************************************************)
HONEYPOT_API_KEY == "secret-key"

\* the x-api-key header is absent: Header(None) gives None
NoHeader == "<None>"

ApiKeys == {HONEYPOT_API_KEY, "wrong-key", NoHeader}

\* the body has no "sessionId" key
NoSessionId == "<absent>"

DEFAULT_SESSION == "default-session"

SessionIdInputs == {"s1", NoSessionId}

SessionKeys == {"s1", DEFAULT_SESSION}

TxtEmpty  == <<>>
TxtBlank  == <<" ", "\t">>
TxtHello  == <<" ", "h", "i">>
TxtUrgent == <<"U","R","G","E","N","T">>
TxtLink   == <<"h","t","t","p",":","/","/","a">>
TxtUpi    == <<"x","@","u","p","i"," ","x","@","u","p","i">>
TxtPhone  == <<"+","9","1","9","8","7","6","5","4","3","2","1","0">>

Texts == {TxtEmpty, TxtBlank, TxtHello, TxtUrgent, TxtLink, TxtUpi, TxtPhone}

\* a body without "message" (also what an unparsable body becomes: data = {})
NoMessage == [kind |-> "no-message"]

\* message.sender as the caller marks it; the handler never reads it
Senders == {"scammer", "persona"}

BodiesFrom(sids, texts, senders) ==
    {NoMessage} \cup
    {[kind |-> "message", sessionId |-> sid, text |-> t, sender |-> who] :
        sid \in sids, t \in texts, who \in senders}

\* bodies whose message is marked as the remote party's
BodiesOf(sids, texts) == BodiesFrom(sids, texts, {"scammer"})

Bodies == BodiesOf(SessionIdInputs, Texts)

\* the bodies of the one-after-another behaviours: a single conversation,
\* long enough to reach the count threshold
SeqBodies == BodiesOf({"s1"}, Texts \ {TxtPhone})

\* the bodies of the behaviours with sender marks: both conversations, either
\* mark, three texts
MarkedBodies ==
    BodiesFrom(SessionIdInputs, {TxtHello, TxtUrgent, TxtUpi}, Senders)

\* at most this many turns (requests that reach the session store) are
\* processed in one behaviour, over all sessions
MaxTurns == 2

\* the same, for the behaviours in which the handlers run one after another
MaxSeqTurns == 5

\* the same, for the behaviours with sender marks
MaxMarkedTurns == 3

\* handler invocations that can be in progress at once
MaxInFlight == 2

Slots == 1..MaxInFlight

\* session["count"] >= 5
FINAL_THRESHOLD == 5

(***************************************************************************)
(* Replies and responses                                                   *)
(***************************************************************************)
REPLY_NO_CLIENT == "I'm not sure what you mean. Could you please explain?"
REPLY_FALLBACK  == "Sorry, can you say that again?"
REPLY_LLM       == "<chat completion content>"
REPLY_REPEAT    == "Sorry, could you repeat that?"
REPLY_TESTER    == "Honeypot active and ready."

Response401 == [status |-> "401", detail |-> "Invalid API Key"]

\* an exception that leaves the handler: the framework answers 500
Response500 == [status |-> "500"]

ResponseTester ==
    [status |-> "success", reply |-> REPLY_TESTER, scamDetected |-> FALSE]

ResponseRepeat ==
    [status |-> "success", reply |-> REPLY_REPEAT, scamDetected |-> FALSE]

ResponseTurn(reply_text, session) ==
    [status |-> "success",
     reply |-> reply_text,
     scamDetected |-> session.scamDetected,
     totalMessagesExchanged |-> session.count,
     extractedIntelligence |-> session.intel,
     agentNotes |-> session.agent_notes]

(***************************************************************************)
(* State                                                                   *)
(***************************************************************************)
VARIABLES
    openai_client,  \* TRUE: AsyncOpenAI was constructed; FALSE: it is None
    sessions,       \* the module-level dict: session id -> session record
    reqs,           \* per slot: one invocation of honeypot_message
    decisions       \* history: per session id, one entry for each evaluation
                    \* of should_send_final, in order: the session's count,
                    \* flag and captured identifiers at that moment, and
                    \* whether send_final_to_guvi was called

vars == <<openai_client, sessions, reqs, decisions>>

\* the dict literal of the session initialisation
NewSession ==
    [count |-> 0,
     history |-> <<>>,
     scamDetected |-> FALSE,
     final_sent |-> FALSE,
     intel |-> [bankAccounts |-> <<>>,
                upiIds |-> <<>>,
                phishingLinks |-> <<>>,
                phoneNumbers |-> <<>>,
                suspiciousKeywords |-> <<>>],
     agent_notes |-> <<>>]

\* a slot in which no handler is running
IdleReq == [pc |-> "idle"]

\* the body of a request whose handler ended before  await request.json()
NotRead == [kind |-> "not-read"]

\* a handler that has returned (or raised): its inputs and its response
DoneReq(x_api_key, data, response) ==
    [pc |-> "done", x_api_key |-> x_api_key, data |-> data, response |-> response]

\* a handler suspended at an await, with the locals it resumes with; arrival
\* is the value session["count"] took when this handler incremented it (the
\* position of its message among those received for the session), which the
\* code keeps in no variable
Suspended(at, x_api_key, data, session_id, message_text, reply_text, arrival) ==
    [pc |-> at, x_api_key |-> x_api_key, data |-> data,
     session_id |-> session_id, message_text |-> message_text,
     reply_text |-> reply_text, arrival |-> arrival]

RECURSIVE SumCounts(_, _)
SumCounts(store, keys) ==
    IF keys = {} THEN 0
    ELSE LET s == CHOOSE k \in keys : TRUE
         IN  store[s].count + SumCounts(store, keys \ {s})

\* turns processed so far, over all sessions
TotalTurns == SumCounts(sessions, DOMAIN sessions)

Init ==
    /\ openai_client \in BOOLEAN
    /\ sessions = [s \in {} |-> NewSession]
    /\ reqs = [r \in Slots |-> IdleReq]
    /\ decisions = [s \in SessionKeys |-> <<>>]

(***************************************************************************)
(* The handler, cut at its awaits                                          *)
(***************************************************************************)
\* only a header that is present and wrong is refused
UnauthorizedIfPresent(x_api_key) ==
    x_api_key # NoHeader /\ x_api_key # HONEYPOT_API_KEY

\* x_api_key != HONEYPOT_API_KEY
Unauthorized(x_api_key) == x_api_key # HONEYPOT_API_KEY

\* the sessionId of the body is not looked at
SessionIdIgnored(data) == DEFAULT_SESSION

\* data.get("sessionId", "default-session")
SessionIdOf(data) ==
    IF data.sessionId = NoSessionId THEN DEFAULT_SESSION ELSE data.sessionId

\* sessions[session_id] = {...} without the membership test
CreateAlways(store, session_id) ==
    [s \in DOMAIN store \cup {session_id} |->
        IF s = session_id THEN NewSession ELSE store[s]]

\* if session_id not in sessions: sessions[session_id] = {...}
GetOrCreate(store, session_id) ==
    IF session_id \in DOMAIN store THEN store
    ELSE [s \in DOMAIN store \cup {session_id} |->
            IF s = session_id THEN NewSession ELSE store[s]]

\* session["scamDetected"] = detect_scam(message_text)
LatchScamOverwrite(flag, message_text) == detect_scam(message_text)

\* if detect_scam(message_text): session["scamDetected"] = True
LatchScam(flag, message_text) == flag \/ detect_scam(message_text)

\* from the session lookup to the call of agent_reply: count, detection, extraction
BeginTurn(session, message_text) ==
    [session EXCEPT
        !.count = @ + 1,
        !.scamDetected = LatchScam(@, message_text),
        !.intel = extract_intelligence(message_text, @)]

\* the tactics list
Tactics(message_text, intel) ==
    (IF Contains(<<"u","r","g","e","n","t">>, lower(message_text))
     THEN <<"urgency">> ELSE <<>>)
    \o (IF \/ Contains(<<"o","t","p">>, lower(message_text))
           \/ Contains(<<"p","i","n">>, lower(message_text))
           \/ Contains(<<"p","a","s","s","w","o","r","d">>, lower(message_text))
        THEN <<"credential theft">> ELSE <<>>)
    \o (IF intel.upiIds # <<>> THEN <<"payment redirection">> ELSE <<>>)
    \o (IF intel.phishingLinks # <<>> THEN <<"phishing">> ELSE <<>>)

\* "Scammer tactics observed: " + ", ".join(tactics), kept as its parts
AgentNotes(message_text, intel) ==
    LET tactics == Tactics(message_text, intel)
    IN  IF tactics # <<>> THEN <<"Scammer tactics observed: ">> \o tactics
        ELSE <<"Engagement ongoing">>

\* after agent_reply returned: history append and agent notes
AfterReply(session, message_text) ==
    [session EXCEPT
        !.history = Append(@, message_text),
        !.agent_notes = AgentNotes(message_text, session.intel)]

\* the decision without its scamDetected conjunct
ShouldSendWithoutScam(session) ==
    /\ ~session.final_sent
    /\ \/ session.count >= FINAL_THRESHOLD
       \/ Len(session.intel.upiIds) > 0
       \/ Len(session.intel.phishingLinks) > 0
       \/ Len(session.intel.phoneNumbers) > 0

should_send_final(session) ==
    /\ session.scamDetected
    /\ ~session.final_sent
    /\ \/ session.count >= FINAL_THRESHOLD
       \/ Len(session.intel.upiIds) > 0
       \/ Len(session.intel.phishingLinks) > 0
       \/ Len(session.intel.phoneNumbers) > 0

\* session["final_sent"] = True, after the await of send_final_to_guvi
MarkFinalSent(session) == [session EXCEPT !.final_sent = TRUE]

\* the history entry of one evaluation of should_send_final
Decision(session) ==
    [count |-> session.count,
     scamDetected |-> session.scamDetected,
     identifiers |-> Len(session.intel.upiIds) + Len(session.intel.phishingLinks)
                        + Len(session.intel.phoneNumbers),
     sent |-> should_send_final(session)]

\* no handler has returned without its response having been written out
NoneDone == \A r \in Slots : reqs[r].pc # "done"

\* The code from the return of agent_reply on, for the handler in slot r with
\* the store as it is now: append, notes, the decision, and either the POST of
\* send_final_to_guvi (the handler is suspended in it) or the response.
Resume(r, store, x_api_key, data, session_id, message_text, reply_text, arrival) ==
    LET session == AfterReply(store[session_id], message_text)
    IN  /\ sessions' = [store EXCEPT ![session_id] = session]
        /\ decisions' = [decisions EXCEPT ![session_id] =
               Append(@, Decision(session))]
        /\ reqs' = [reqs EXCEPT ![r] =
               IF should_send_final(session)
               THEN Suspended("sink", x_api_key, data, session_id,
                              message_text, reply_text, arrival)
               ELSE DoneReq(x_api_key, data, ResponseTurn(reply_text, session))]

\* An authorized request with body data: the handler runs from
\* await request.json()  up to its first await on an outbound call, or to its
\* return.  limit bounds the turns of a behaviour.
Handle(r, x_api_key, data, limit) ==
    IF data.kind = "no-message"
    THEN /\ reqs' = [reqs EXCEPT ![r] = DoneReq(x_api_key, data, ResponseTester)]
         /\ UNCHANGED <<sessions, decisions>>
    ELSE IF strip(data.text) = <<>>
    THEN /\ reqs' = [reqs EXCEPT ![r] = DoneReq(x_api_key, data, ResponseRepeat)]
         /\ UNCHANGED <<sessions, decisions>>
    ELSE LET session_id   == SessionIdOf(data)
             message_text == strip(data.text)
             store0       == GetOrCreate(sessions, session_id)
             store1       == [store0 EXCEPT ![session_id] =
                                 BeginTurn(@, message_text)]
         IN  /\ TotalTurns < limit
             /\ IF openai_client
                THEN /\ sessions' = store1
                     /\ decisions' = decisions
                     /\ reqs' = [reqs EXCEPT ![r] =
                            Suspended("agent", x_api_key, data, session_id,
                                      message_text, "",
                                      store1[session_id].count)]
                ELSE Resume(r, store1, x_api_key, data, session_id,
                            message_text, REPLY_NO_CLIENT,
                            store1[session_id].count)

\* A request arrives in the lowest free slot.  The key is checked first; the
\* body (one of bodies) is read only by a handler that passed the check.
Receive(r, x_api_key, bodies, limit) ==
    /\ NoneDone
    /\ reqs[r].pc = "idle"
    /\ \A q \in Slots : q < r => reqs[q].pc # "idle"
    /\ UNCHANGED openai_client
    /\ IF Unauthorized(x_api_key)
       THEN /\ reqs' = [reqs EXCEPT ![r] =
                   DoneReq(x_api_key, NotRead, Response401)]
            /\ UNCHANGED <<sessions, decisions>>
       ELSE \E data \in bodies : Handle(r, x_api_key, data, limit)

\* agent_reply without its try/except: an exception of the chat completion
\* leaves the handler
AgentReturnsPropagating(r, ok) ==
    /\ NoneDone
    /\ reqs[r].pc = "agent"
    /\ UNCHANGED openai_client
    /\ IF ok
       THEN Resume(r, sessions, reqs[r].x_api_key, reqs[r].data,
                   reqs[r].session_id, reqs[r].message_text, REPLY_LLM,
                   reqs[r].arrival)
       ELSE /\ reqs' = [reqs EXCEPT ![r] =
                   DoneReq(reqs[r].x_api_key, reqs[r].data, Response500)]
            /\ UNCHANGED <<sessions, decisions>>

\* The chat completion returns: its content, or (on any exception) the
\* fallback text; the handler runs on to its next await or to its return.
AgentReturns(r, ok) ==
    /\ NoneDone
    /\ reqs[r].pc = "agent"
    /\ UNCHANGED openai_client
    /\ Resume(r, sessions, reqs[r].x_api_key, reqs[r].data, reqs[r].session_id,
              reqs[r].message_text, IF ok THEN REPLY_LLM ELSE REPLY_FALLBACK,
              reqs[r].arrival)

\* The POST of send_final_to_guvi returns: final_sent is set and the handler
\* returns its response.
SinkReturns(r) ==
    /\ NoneDone
    /\ reqs[r].pc = "sink"
    /\ LET session_id == reqs[r].session_id
           session    == MarkFinalSent(sessions[session_id])
       IN  /\ sessions' = [sessions EXCEPT ![session_id] = session]
           /\ reqs' = [reqs EXCEPT ![r] =
                  DoneReq(reqs[r].x_api_key, reqs[r].data,
                          ResponseTurn(reqs[r].reply_text, session))]
    /\ UNCHANGED <<openai_client, decisions>>

\* The POST raises (connection error, or the 5 s timeout): nothing in the
\* handler catches it, so the handler ends there.
SinkRaises(r) ==
    /\ NoneDone
    /\ reqs[r].pc = "sink"
    /\ reqs' = [reqs EXCEPT ![r] =
           DoneReq(reqs[r].x_api_key, reqs[r].data, Response500)]
    /\ UNCHANGED <<openai_client, sessions, decisions>>

\* The response of a finished handler is written out and its slot is free.
\* Nothing else runs between a handler's last step and this one: a finished
\* handler touches no state, so this loses no interleaving of the handlers.
Complete(r) ==
    /\ reqs[r].pc = "done"
    /\ reqs' = [reqs EXCEPT ![r] = IdleReq]
    /\ UNCHANGED <<openai_client, sessions, decisions>>

Next ==
    \/ \E r \in Slots, k \in ApiKeys : Receive(r, k, Bodies, MaxTurns)
    \/ \E r \in Slots, ok \in BOOLEAN : AgentReturns(r, ok)
    \/ \E r \in Slots : SinkReturns(r)
    \/ \E r \in Slots : SinkRaises(r)
    \/ \E r \in Slots : Complete(r)

\* requests may overlap: a handler suspended at an await lets others run
Spec == Init /\ [][Next]_vars

\* no handler is running
AllIdle == \A r \in Slots : reqs[r].pc = "idle"

\* one conversation whose requests arrive one after another: a request is
\* received only when no handler is running
NextSeq ==
    \/ \E r \in Slots, k \in ApiKeys :
          AllIdle /\ Receive(r, k, SeqBodies, MaxSeqTurns)
    \/ \E r \in Slots, ok \in BOOLEAN : AgentReturns(r, ok)
    \/ \E r \in Slots : SinkReturns(r)
    \/ \E r \in Slots : SinkRaises(r)
    \/ \E r \in Slots : Complete(r)

SpecSeq == Init /\ [][NextSeq]_vars

\* both conversations, messages marked as the remote party's or the persona's,
\* requests arriving one after another
NextMarked ==
    \/ \E r \in Slots, k \in ApiKeys :
          AllIdle /\ Receive(r, k, MarkedBodies, MaxMarkedTurns)
    \/ \E r \in Slots, ok \in BOOLEAN : AgentReturns(r, ok)
    \/ \E r \in Slots : SinkReturns(r)
    \/ \E r \in Slots : SinkRaises(r)
    \/ \E r \in Slots : Complete(r)

SpecMarked == Init /\ [][NextMarked]_vars

(***************************************************************************)
(* Properties                                                              *)
(***************************************************************************)
\* calls of send_final_to_guvi made so far for session id s
SinkCalls(s) ==
    Cardinality({i \in DOMAIN decisions[s] : decisions[s][i].sent})

\* the handler in slot r starts in this step (a request is received)
Starts(r) == reqs[r].pc = "idle" /\ reqs'[r].pc # "idle"

\* the handler in slot r leaves the await of send_final_to_guvi in this step
LeavesSink(r) == reqs[r].pc = "sink" /\ reqs'[r].pc = "done"

\* a text that is empty or whitespace only
IsBlank(t) == \A i \in DOMAIN t : t[i] \in WhiteSpace

\* the session store and the record of calls to the report sink are untouched
StoreUntouched == sessions' = sessions /\ decisions' = decisions

NoDuplicates(lst) ==
    \A i, j \in DOMAIN lst : lst[i] = lst[j] => i = j

Categories ==
    {"bankAccounts", "upiIds", "phishingLinks", "phoneNumbers", "suspiciousKeywords"}

\* C1: send_final_to_guvi is called at most once for each session, in every
\* reachable state, overlapping requests included.
C1_AtMostOneReport == \A s \in SessionKeys : SinkCalls(s) <= 1

\* C2: a turn that awaited the report sink ends with the normal success
\* response carrying the persona reply, whatever the outcome of the POST (a
\* POST that raised or timed out included).
C2_SinkFailureNotPropagated ==
    [][\A r \in Slots :
          LeavesSink(r) =>
             /\ reqs'[r].response.status = "success"
             /\ reqs'[r].response.reply = reqs[r].reply_text]_vars

\* C3: when a turn that called the report sink ends, final_sent is true for
\* its session, whether the POST returned or raised.
C3_FinalSentAfterAttempt ==
    [][\A r \in Slots :
          LeavesSink(r) => sessions'[reqs[r].session_id].final_sent]_vars

\* the escalation condition of the claim, on the facts recorded at a decision
Escalatable(d) == d.scamDetected /\ (d.count >= 5 \/ d.identifiers > 0)

\* C4: with the turns of a session processed one after another, the report is
\* sent during a turn if and only if that turn is the first at whose end
\* scamDetected holds and (count >= 5 or an identifier is captured).
C4_SentExactlyAtFirstEscalatableTurn ==
    \A s \in SessionKeys : \A i \in DOMAIN decisions[s] :
        decisions[s][i].sent <=>
            /\ Escalatable(decisions[s][i])
            /\ \A j \in 1..(i - 1) : ~Escalatable(decisions[s][j])

\* C5: while a handler is suspended in the persona or report-sink call, no
\* step of another handler changes the session it works on.
C5_SessionSerialized ==
    [][\A r \in Slots :
          (reqs[r].pc \in {"agent", "sink"} /\ reqs'[r] = reqs[r]) =>
             sessions'[reqs[r].session_id] = sessions[reqs[r].session_id]]_vars

\* C6: a session once stored stays stored, and its scamDetected and final_sent
\* flags, once true, are true after every later step.
C6_FlagsMonotonic ==
    [][\A s \in DOMAIN sessions :
          /\ s \in DOMAIN sessions'
          /\ sessions[s].scamDetected => sessions'[s].scamDetected
          /\ sessions[s].final_sent => sessions'[s].final_sent]_vars

C6_Witness ==
    \E s \in DOMAIN sessions :
        /\ sessions[s].scamDetected
        /\ sessions[s].final_sent
        /\ sessions[s].count >= 2
        /\ sessions[s].history[Len(sessions[s].history)] = strip(TxtHello)

\* C7: a request whose text is empty or whitespace only changes no session,
\* creates none, calls neither the persona engine nor the report sink, and is
\* answered at once with the fixed "repeat" reply.
C7_BlankTextNoOp ==
    [][\A r \in Slots :
          (/\ Starts(r)
           /\ reqs'[r].data.kind = "message"
           /\ IsBlank(reqs'[r].data.text)) =>
             /\ StoreUntouched
             /\ reqs'[r].pc = "done"
             /\ reqs'[r].response = ResponseRepeat]_vars

C7_Witness ==
    \E r \in Slots :
        /\ reqs[r].pc = "done"
        /\ reqs[r].data.kind = "message"
        /\ reqs[r].data.text = TxtBlank
        /\ reqs[r].response = ResponseRepeat
        /\ SessionIdOf(reqs[r].data) \in DOMAIN sessions
        /\ sessions[SessionIdOf(reqs[r].data)].count >= 1

\* C8: a request whose x-api-key is missing or differs from the configured key
\* is answered 401 at once: no session is created or changed and neither the
\* persona engine nor the report sink is called.
C8_UnauthorizedRejected ==
    [][\A r \in Slots :
          (Starts(r) /\ reqs'[r].x_api_key # HONEYPOT_API_KEY) =>
             /\ StoreUntouched
             /\ reqs'[r].pc = "done"
             /\ reqs'[r].response.status = "401"]_vars

C8_Witness ==
    \E r \in Slots :
        /\ reqs[r].pc = "done"
        /\ reqs[r].x_api_key = NoHeader
        /\ reqs[r].response.status = "401"
        /\ \E s \in DOMAIN sessions : sessions[s].count >= 1

\* the text t has been taken in by session s: it is in the history, or a
\* handler of s that is suspended in the persona call carries it
AlreadyTaken(s, t) ==
    /\ s \in DOMAIN sessions
    /\ \/ InList(t, sessions[s].history)
       \/ \E q \in Slots :
             /\ reqs[q].pc = "agent"
             /\ reqs[q].session_id = s
             /\ reqs[q].message_text = t

\* C9: in every reachable state no category list of a session holds a value
\* twice, and a turn whose message text the session has already taken in
\* leaves every category list exactly as it was (same elements, same order).
C9_MergeIdempotentNoDuplicates ==
    /\ [](\A s \in DOMAIN sessions :
             \A c \in Categories : NoDuplicates(sessions[s].intel[c]))
    /\ [][\A r \in Slots :
             (/\ Starts(r)
              /\ reqs'[r].data.kind = "message"
              /\ AlreadyTaken(SessionIdOf(reqs'[r].data),
                              strip(reqs'[r].data.text))) =>
                sessions'[SessionIdOf(reqs'[r].data)].intel
                   = sessions[SessionIdOf(reqs'[r].data)].intel]_vars

C9_Witness ==
    \E s \in DOMAIN sessions :
        /\ sessions[s].history = <<TxtUpi, TxtUpi>>
        /\ sessions[s].intel.upiIds = <<SubSeq(TxtUpi, 1, 5)>>
        /\ sessions[s].count = 2

\* C10: the persona engine is called for a turn only if the session's
\* scamDetected is true once the turn's message has been classified.
C10_PersonaOnlyWhenScam ==
    [][\A r \in Slots :
          (Starts(r) /\ reqs'[r].pc = "agent") =>
             sessions'[reqs'[r].session_id].scamDetected]_vars

(***************************************************************************)
(* Properties of the sender mark, the session store, the persona call, the *)
(* transcript, the turn count, the notes and the account numbers           *)
(***************************************************************************)
\* the session s as the step finds it: a fresh record when it is not stored
Before(s) == IF s \in DOMAIN sessions THEN sessions[s] ELSE NewSession

\* the session id a body names: its sessionId, or "default-session" without one
TargetKey(data) ==
    IF data.sessionId = NoSessionId THEN "default-session" ELSE data.sessionId

\* the handler in slot r starts in this step, on an authorized request whose
\* message text is not blank
TurnStarts(r) ==
    /\ Starts(r)
    /\ reqs'[r].x_api_key = HONEYPOT_API_KEY
    /\ reqs'[r].data.kind = "message"
    /\ ~IsBlank(reqs'[r].data.text)

\* the handler in slot r leaves the await of the chat completion in this step
LeavesAgent(r) == reqs[r].pc = "agent" /\ reqs'[r].pc # "agent"

\* handlers of session s suspended in the chat completion
AgentWaiters(s) ==
    {q \in Slots : reqs[q].pc = "agent" /\ reqs[q].session_id = s}

IsPrefix(a, b) == Len(a) <= Len(b) /\ SubSeq(b, 1, Len(a)) = a

\* C11: a message marked as coming from the persona side changes neither
\* scamDetected nor the intelligence lists of its session and does not count
\* as a turn of it.
C11_PersonaMessageInert ==
    [][\A r \in Slots :
          (TurnStarts(r) /\ reqs'[r].data.sender = "persona") =>
             \A s \in DOMAIN sessions' :
                /\ sessions'[s].scamDetected = Before(s).scamDetected
                /\ sessions'[s].intel = Before(s).intel
                /\ sessions'[s].count = Before(s).count]_vars

\* C12: every stored session was initialised once and never replaced: its
\* count is the number of messages received for it (those appended to the
\* history plus those whose handler waits for the persona reply), one decision
\* was recorded per appended message, and a handler is only ever suspended on
\* a stored session, with an arrival number the count has reached.
C12_SessionCreatedOnce ==
    /\ \A s \in DOMAIN sessions :
          /\ sessions[s].count
                = Len(sessions[s].history) + Cardinality(AgentWaiters(s))
          /\ Len(decisions[s]) = Len(sessions[s].history)
    /\ \A s \in SessionKeys \ DOMAIN sessions : decisions[s] = <<>>
    /\ \A q \in Slots :
          reqs[q].pc \in {"agent", "sink"} =>
             /\ reqs[q].session_id \in DOMAIN sessions
             /\ reqs[q].arrival <= sessions[reqs[q].session_id].count

C12_Witness ==
    \E s \in DOMAIN sessions :
        /\ Cardinality(AgentWaiters(s)) = 2
        /\ sessions[s].count = 2
        /\ sessions[s].history = <<>>

\* C13: whatever the chat completion does (it fails included), the turn goes
\* on: the message is appended to the history, the notes and the decision are
\* made from the session as it is, count, flags and lists stay as the turn
\* set them, and the handler either calls the report sink or returns a
\* success response, with the completion's content or the fixed fallback.
C13_PersonaFailureRecovered ==
    [][\A r \in Slots :
          LeavesAgent(r) =>
             LET s   == reqs[r].session_id
                 old == sessions[s]
                 new == sessions'[s]
             IN  /\ new.history = Append(old.history, reqs[r].message_text)
                 /\ new.count = old.count
                 /\ new.scamDetected = old.scamDetected
                 /\ new.final_sent = old.final_sent
                 /\ new.intel = old.intel
                 /\ new.agent_notes = AgentNotes(reqs[r].message_text, old.intel)
                 /\ decisions'[s] = Append(decisions[s], Decision(new))
                 /\ reqs'[r].pc \in {"sink", "done"}
                 /\ reqs'[r].pc = "sink" =>
                       /\ should_send_final(new)
                       /\ reqs'[r].reply_text \in {REPLY_LLM, REPLY_FALLBACK}
                 /\ reqs'[r].pc = "done" =>
                       /\ ~should_send_final(new)
                       /\ reqs'[r].response.status = "success"
                       /\ reqs'[r].response.reply \in {REPLY_LLM, REPLY_FALLBACK}]_vars

C13_Witness ==
    \E r \in Slots :
        /\ reqs[r].pc = "done"
        /\ reqs[r].response.status = "success"
        /\ reqs[r].response.reply = REPLY_FALLBACK
        /\ reqs[r].response.totalMessagesExchanged >= 1
        /\ InList(strip(reqs[r].data.text),
                  sessions[SessionIdOf(reqs[r].data)].history)

\* C14: the history of a session only grows at its end, and a message is
\* never appended while a message of the same session that was received
\* earlier is still waiting to be appended.
C14_HistoryInArrivalOrder ==
    [][/\ \A s \in DOMAIN sessions :
             IsPrefix(sessions[s].history, sessions'[s].history)
       /\ \A r \in Slots :
             LeavesAgent(r) =>
                \A q \in AgentWaiters(reqs[r].session_id) :
                   reqs[q].arrival >= reqs[r].arrival]_vars

\* C15: each accepted non-empty message increments the count of its session
\* by one, and the success response to the n-th message received for a
\* session reports totalMessagesExchanged = n.
C15_ResponseReportsOwnTurn ==
    [][\A r \in Slots :
          /\ TurnStarts(r) =>
                sessions'[TargetKey(reqs'[r].data)].count
                   = Before(TargetKey(reqs'[r].data)).count + 1
          /\ (/\ reqs[r].pc \in {"agent", "sink"}
              /\ reqs'[r].pc = "done"
              /\ reqs'[r].response.status = "success") =>
                reqs'[r].response.totalMessagesExchanged = reqs[r].arrival]_vars

\* C16: when no handler is running, two sessions whose intelligence records
\* are equal have equal notes.
C16_NotesFunctionOfIntel ==
    AllIdle =>
       \A a, b \in DOMAIN sessions :
          sessions[a].intel = sessions[b].intel =>
             sessions[a].agent_notes = sessions[b].agent_notes

\* C17: when no handler is running, the history of a session holds two
\* entries for each of its turns: the inbound message and the persona reply.
C17_RepliesInHistory ==
    AllIdle =>
       \A s \in DOMAIN sessions :
          Len(sessions[s].history) = 2 * sessions[s].count

\* the maximal runs of digits of t that are 12 to 18 digits long
LongDigitRuns(t) ==
    {SubSeq(t, i, j) : <<i, j>> \in
        {p \in (1..Len(t)) \X (1..Len(t)) :
            /\ p[2] - p[1] + 1 \in 12..18
            /\ \A k \in p[1]..p[2] : t[k] \in Digits
            /\ (p[1] = 1 \/ t[p[1] - 1] \notin Digits)
            /\ (p[2] = Len(t) \/ t[p[2] + 1] \notin Digits)}}

\* C18: every 12 to 18 digit run of a message in the history of a session is
\* in the session's bankAccounts list.
C18_AccountNumbersCaptured ==
    \A s \in DOMAIN sessions :
       \A i \in DOMAIN sessions[s].history :
          \A run \in LongDigitRuns(sessions[s].history[i]) :
             InList(run, sessions[s].intel.bankAccounts)

\* C19: final_sent implies scamDetected, every call of the report sink was
\* decided with scamDetected true, and a handler is suspended in the report
\* sink only for a session whose scamDetected is true.
C19_ReportOnlyWhenScam ==
    /\ \A s \in DOMAIN sessions :
          /\ sessions[s].final_sent => sessions[s].scamDetected
          /\ \A i \in DOMAIN decisions[s] :
                decisions[s][i].sent => decisions[s][i].scamDetected
    /\ \A r \in Slots :
          reqs[r].pc = "sink" => sessions[reqs[r].session_id].scamDetected

C19_Witness ==
    \E s \in DOMAIN sessions :
        /\ sessions[s].count >= 5
        /\ sessions[s].intel.phishingLinks # <<>>
        /\ ~sessions[s].scamDetected
        /\ ~sessions[s].final_sent
        /\ Len(decisions[s]) >= 5
        /\ SinkCalls(s) = 0

\* session s, or the record of its report decisions, differs after the step
Changed(s) ==
    \/ decisions'[s] # decisions[s]
    \/ (s \in DOMAIN sessions) # (s \in DOMAIN sessions')
    \/ s \in DOMAIN sessions /\ s \in DOMAIN sessions'
          /\ sessions'[s] # sessions[s]

\* the body of the request the handler in slot r works on during the step
StepData(r) == IF reqs[r].pc = "idle" THEN reqs'[r].data ELSE reqs[r].data

\* C20: a step changes a session (or sends a report for it) only if it is a
\* step of a handler whose request names that session, a request without
\* sessionId naming "default-session"; and a turn that starts is counted in
\* the session its request names.
C20_SessionsIsolated ==
    [][/\ \A s \in SessionKeys :
             Changed(s) =>
                \E r \in Slots :
                   /\ reqs'[r] # reqs[r]
                   /\ StepData(r).kind = "message"
                   /\ TargetKey(StepData(r)) = s
       /\ \A r \in Slots :
             TurnStarts(r) =>
                /\ TargetKey(reqs'[r].data) \in DOMAIN sessions'
                /\ sessions'[TargetKey(reqs'[r].data)].count
                      = Before(TargetKey(reqs'[r].data)).count + 1]_vars

C20_Witness ==
    /\ DOMAIN sessions = SessionKeys
    /\ sessions["s1"].history = <<TxtUpi>>
    /\ sessions["default-session"].history = <<strip(TxtHello)>>
    /\ sessions["s1"].scamDetected
    /\ ~sessions["default-session"].scamDetected

====
